---- MODULE Spec2Model ----
(***************************************************************************)
(* Verification model of the geophotos viewer: the neighborhood filter,    *)
(* the heading resolver with its local override store, and the map point   *)
(* builders of the viewer page and of the home page.                       *)
(*                                                                         *)
(* Numbers.  Angles (yaw, pitch) are integers in hundredths of a degree.   *)
(* Latitudes and longitudes are integers in units of 1e-7 degree.  A JS    *)
(* value that may be missing is Undefined (<<>>) or <<n>>.  The value of a *)
(* type=number input element is EmptyText (<<>>) or <<n>>, the number its  *)
(* text denotes.  Timestamps are [wall, off]: the wall-clock minutes the   *)
(* ISO string shows and the UTC offset it carries.                         *)
(***************************************************************************)
EXTENDS Integers, Sequences, FiniteSets, TLC

VARIABLES
    phase,               \* "boot", "viewer" (init ran to the end), "empty",
                         \* "redirect", "failed", "home"
    allPhotos,           \* indexData.photos, the photo collection on the server
    fetched,             \* the fetches of index.json and neighborhoods.json resolve
    neighborhoodId,      \* the neighborhood parameter of the URL: <<>> or <<text>>
    neighborhood,        \* the neighborhood record of the page
    photos,              \* the filtered, time-sorted photos of the page
    localStorage,        \* the durable value under STORAGE_KEY
    storageFull,         \* the browser's storage quota is used up: setItem throws
    headingAdjustments,  \* the in-memory override store: path -> [yaw, pitch]
    lastSave,            \* outcome logged by the last saveHeadingAdjustments
    currentIndex,        \* 0-based index of the photo shown
    panorama,            \* the image the panorama viewer shows, "" for none
    prevDisabled,        \* the prev button is disabled
    nextDisabled,        \* the next button is disabled
    activeMarker,        \* the marker of the current photo on the minimap
    editMode,            \* edit panel visible
    editYaw,             \* value of the #edit-yaw input
    editPitch,           \* value of the #edit-pitch input
    editStatus,          \* status text of the edit panel
    feedbackPending,     \* a showEditFeedback timeout has not fired yet
    mapLoaded,           \* the minimap 'load' callback has run
    allFeatures,         \* point features of the viewer minimap
    routeLines,          \* LineString features of the viewer minimap
    cardFeatures,        \* point features of the home page card map
    cardLines,           \* LineString features of the home page card map
    photoBearings,       \* photo index -> bearing, set by calculatePhotoBearings
    consoleError,        \* the message init() logged with console.error
    output               \* what the latest handler gave the browser: a download, an alert

storeVars == <<localStorage, headingAdjustments, lastSave>>
editVars  == <<editMode, editYaw, editPitch, editStatus, feedbackPending>>
mapVars   == <<mapLoaded, allFeatures, routeLines, cardFeatures, cardLines>>
pageVars  == <<photoBearings, consoleError>>
shownVars == <<panorama, prevDisabled, nextDisabled, activeMarker>>
dataVars  == <<allPhotos, fetched, neighborhoodId, neighborhood, storageFull>>
vars == <<phase, allPhotos, fetched, neighborhoodId, neighborhood, photos,
          localStorage, storageFull, headingAdjustments,
          lastSave, currentIndex, panorama, prevDisabled, nextDisabled,
          activeMarker, editMode, editYaw, editPitch, editStatus,
          feedbackPending, mapLoaded,
          allFeatures, routeLines, cardFeatures, cardLines, photoBearings,
          consoleError, output>>

(***************************************************************************)
(* Bounds of the model.                                                    *)
(***************************************************************************)
MaxPhotos == 2

(***************************************************************************)
(* JavaScript values.                                                      *)
(***************************************************************************)
Undefined == <<>>
EmptyText == <<>>
NaN == <<>>

Range(s) == {s[i] : i \in DOMAIN s}

\* !x for a number that may be missing: undefined, NaN and 0 are falsy
Falsy(x) == x = Undefined \/ x[1] = 0

\* x || 0
OrZero(x) == IF Falsy(x) THEN 0 ELSE x[1]

\* parseFloat(element.value): the empty text parses to NaN
ParseFloat(text) == IF text = EmptyText THEN NaN ELSE text

\* n.toFixed(1) for n in hundredths: the text of n rounded to one decimal
ToFixed1(n) ==
    LET a == IF n < 0 THEN 0 - n ELSE n
        r == ((a + 5) \div 10) * 10
    IN  <<IF n < 0 THEN 0 - r ELSE r>>

(***************************************************************************)
(* Durable storage: JSON.stringify / JSON.parse of the override store.     *)
(* A JSON text is the set of its "path": {"yaw": y, "pitch": p} members.   *)
(***************************************************************************)
NoItem == [kind |-> "null"]
Garbage == [kind |-> "garbage"]

JSONstringify(adj) ==
    [kind |-> "json",
     members |-> {<<p, adj[p].yaw, adj[p].pitch>> : p \in DOMAIN adj}]

JSONparse(text) ==
    [p \in {m[1] : m \in text.members} |->
        LET m == CHOOSE m \in text.members : m[1] = p
        IN  [yaw |-> m[2], pitch |-> m[3]]]

\* Mutant: the parsed value is dropped and the store stays {}
loadHeadingAdjustmentsDropped(saved) == <<>>

\* loadHeadingAdjustments: the store after the call, starting from {}
loadHeadingAdjustments(saved) ==
    IF saved = NoItem THEN <<>>
    ELSE IF saved = Garbage THEN <<>>
    ELSE JSONparse(saved)

\* delete obj[key]
Delete(adj, key) == [p \in DOMAIN adj \ {key} |-> adj[p]]

\* obj[key] = value
Assign(adj, key, value) ==
    [p \in DOMAIN adj \cup {key} |-> IF p = key THEN value ELSE adj[p]]

(***************************************************************************)
(* Heading resolver.                                                       *)
(***************************************************************************)
\* Mutant: the index.json value is consulted before the local override
getPhotoHeadingIndexFirst(photo, adj) ==
    IF photo.yaw # Undefined \/ photo.pitch # Undefined
    THEN [yaw |-> OrZero(photo.yaw), pitch |-> OrZero(photo.pitch),
          source |-> "index"]
    ELSE IF photo.path \in DOMAIN adj
    THEN [yaw |-> adj[photo.path].yaw, pitch |-> adj[photo.path].pitch,
          source |-> "local"]
    ELSE [yaw |-> 0, pitch |-> 0, source |-> "default"]

\* Mutant: the index.json value counts only when yaw and pitch are both there
getPhotoHeadingBothFields(photo, adj) ==
    IF photo.path \in DOMAIN adj
    THEN [yaw |-> adj[photo.path].yaw, pitch |-> adj[photo.path].pitch,
          source |-> "local"]
    ELSE IF photo.yaw # Undefined /\ photo.pitch # Undefined
    THEN [yaw |-> OrZero(photo.yaw), pitch |-> OrZero(photo.pitch),
          source |-> "index"]
    ELSE [yaw |-> 0, pitch |-> 0, source |-> "default"]

getPhotoHeading(photo, adj) ==
    IF photo.path \in DOMAIN adj
    THEN [yaw |-> adj[photo.path].yaw, pitch |-> adj[photo.path].pitch,
          source |-> "local"]
    ELSE IF photo.yaw # Undefined \/ photo.pitch # Undefined
    THEN [yaw |-> OrZero(photo.yaw), pitch |-> OrZero(photo.pitch),
          source |-> "index"]
    ELSE [yaw |-> 0, pitch |-> 0, source |-> "default"]

(***************************************************************************)
(* Neighborhood filter.                                                    *)
(***************************************************************************)
\* new Date(timestamp).getTime(): the absolute instant, in minutes
Instant(ts) == ts.wall - ts.off

NoRange == [set |-> FALSE]

Qualifies(n, photo) ==
    /\ photo.date = n.date
    /\ ~(Falsy(photo.lat) \/ Falsy(photo.lon))
    /\ \/ n.timeRange = NoRange
       \/ ~(Instant(photo.timestamp) < Instant(n.timeRange.start)
            \/ Instant(photo.timestamp) > Instant(n.timeRange.end))

\* Array.prototype.sort with (a, b) => key(a) - key(b): a stable sort.
\* key is a function over the elements of s.
RECURSIVE InsertByKey(_, _, _)
InsertByKey(x, s, key) ==
    IF s = <<>> THEN <<x>>
    ELSE IF key[s[Len(s)]] <= key[x] THEN Append(s, x)
    ELSE Append(InsertByKey(x, SubSeq(s, 1, Len(s) - 1), key), s[Len(s)])

RECURSIVE StableSort(_, _)
StableSort(s, key) ==
    IF s = <<>> THEN <<>>
    ELSE InsertByKey(s[Len(s)], StableSort(SubSeq(s, 1, Len(s) - 1), key), key)

\* Mutant: the timestamps are compared as the clock times their texts show
SortByWallClock(s) ==
    StableSort(s, [x \in Range(s) |-> x.timestamp.wall])

SortByTimestamp(s) ==
    StableSort(s, [x \in Range(s) |-> Instant(x.timestamp)])

getPhotosForNeighborhood(n, all) ==
    SortByTimestamp(SelectSeq(all, LAMBDA photo : Qualifies(n, photo)))

(***************************************************************************)
(* Route grouping and map point features.                                  *)
(***************************************************************************)
\* photo.folder is a string; the missing folder is the empty string (falsy)
NoFolder == ""

\* Property names that are canonical array indices, with their values:
\* Object.keys lists these first, in ascending numeric order.
ArrayIndexKeys == [k \in {"3", "7"} |-> IF k = "3" THEN 3 ELSE 7]

\* The 0-based indices of s (a sequence of photos), in order, whose photo
\* passes the guard lat && lon && folder
RoutableIndices(s) ==
    SelectSeq([i \in 1..Len(s) |-> i - 1],
              LAMBDA i : /\ ~Falsy(s[i + 1].lat)
                         /\ ~Falsy(s[i + 1].lon)
                         /\ s[i + 1].folder # NoFolder)

\* Mutant: routesByFolder[folder] = [entry] in place of push: the route
\* keeps its last photo only
RouteOfLastOnly(s, folder) ==
    LET all == SelectSeq(RoutableIndices(s), LAMBDA i : s[i + 1].folder = folder)
    IN  IF all = <<>> THEN <<>> ELSE <<all[Len(all)]>>

\* routesByFolder[folder]: the indices pushed under that key, in push order
RouteOf(s, folder) ==
    SelectSeq(RoutableIndices(s), LAMBDA i : s[i + 1].folder = folder)

\* The keys of routesByFolder in the order of their creation
RECURSIVE FirstOccurrences(_, _)
FirstOccurrences(s, idx) ==
    IF idx = <<>> THEN <<>>
    ELSE LET rest == FirstOccurrences(s, SubSeq(idx, 1, Len(idx) - 1))
             f == s[idx[Len(idx)] + 1].folder
         IN  IF f \in Range(rest) THEN rest ELSE Append(rest, f)

\* Object.keys(routesByFolder)
ObjectKeys(created) ==
    LET ints == SelectSeq(created, LAMBDA k : k \in DOMAIN ArrayIndexKeys)
        strs == SelectSeq(created, LAMBDA k : k \notin DOMAIN ArrayIndexKeys)
    IN  StableSort(ints, ArrayIndexKeys) \o strs

folderNames(s) == ObjectKeys(FirstOccurrences(s, RoutableIndices(s)))

\* Mutant: the comparator is b - a, the newest photo comes first
routePhotosNewestFirst(s, folder) ==
    StableSort(RouteOf(s, folder),
               [i \in 0..(Len(s) - 1) |-> 0 - Instant(s[i + 1].timestamp)])

\* An insertion sort that puts an element before the elements of equal key
RECURSIVE InsertBeforeTies(_, _, _)
InsertBeforeTies(x, s, key) ==
    IF s = <<>> THEN <<x>>
    ELSE IF key[s[Len(s)]] < key[x] THEN Append(s, x)
    ELSE Append(InsertBeforeTies(x, SubSeq(s, 1, Len(s) - 1), key), s[Len(s)])

RECURSIVE TiesReversedSort(_, _)
TiesReversedSort(s, key) ==
    IF s = <<>> THEN <<>>
    ELSE InsertBeforeTies(s[Len(s)],
                          TiesReversedSort(SubSeq(s, 1, Len(s) - 1), key), key)

\* Mutant: the sort of a route is not stable, photos of equal timestamp
\* come out in reverse
routePhotosTiesReversed(s, folder) ==
    TiesReversedSort(RouteOf(s, folder),
                     [i \in 0..(Len(s) - 1) |-> Instant(s[i + 1].timestamp)])

\* routePhotos after routePhotos.sort(by timestamp)
routePhotos(s, folder) ==
    StableSort(RouteOf(s, folder),
               [i \in 0..(Len(s) - 1) |-> Instant(s[i + 1].timestamp)])

\* x.toFixed(6) for x in units of 1e-7 degree: x rounded to the 6th decimal
ToFixed6(x) ==
    LET a == IF x < 0 THEN 0 - x ELSE x
        r == (a + 5) \div 10
    IN  IF x < 0 THEN 0 - r ELSE r

\* `${lat.toFixed(6)},${lon.toFixed(6)}`
CoordKey(photo) == <<ToFixed6(photo.lat[1]), ToFixed6(photo.lon[1])>>

\* calculateBearing for the points of the model: the initial bearing in
\* hundredths of a degree, (atan2(y, x) * 180 / PI + 360) % 360 evaluated at
\* each pair of points (units of 1e-7 degree), <<lat1, lon1, lat2, lon2,
\* bearing>>: the three points of MapCoords, the same three 0.1 degree
\* further north, and the same three 0.1 degree further east
BearingTable ==
    {<<357000000, 1397000000, 357000003, 1397000000, 0>>,
     <<357000000, 1397000000, 356999779, 1397000203, 14328>>,
     <<357000003, 1397000000, 357000000, 1397000000, 18000>>,
     <<357000003, 1397000000, 356999779, 1397000203, 14365>>,
     <<356999779, 1397000203, 357000000, 1397000000, 32328>>,
     <<356999779, 1397000203, 357000003, 1397000000, 32365>>,
     <<358000000, 1397000000, 358000003, 1397000000, 0>>,
     <<358000000, 1397000000, 357999779, 1397000203, 14331>>,
     <<358000003, 1397000000, 358000000, 1397000000, 18000>>,
     <<358000003, 1397000000, 357999779, 1397000203, 14368>>,
     <<357999779, 1397000203, 358000000, 1397000000, 32331>>,
     <<357999779, 1397000203, 358000003, 1397000000, 32368>>,
     <<357000000, 1398000000, 357000003, 1398000000, 0>>,
     <<357000000, 1398000000, 356999779, 1398000203, 14328>>,
     <<357000003, 1398000000, 357000000, 1398000000, 18000>>,
     <<357000003, 1398000000, 356999779, 1398000203, 14365>>,
     <<356999779, 1398000203, 357000000, 1398000000, 32328>>,
     <<356999779, 1398000203, 357000003, 1398000000, 32365>>}

\* Mutant: dLon = lon2 * PI / 180, the subtraction of lon1 left out; the
\* value then follows the absolute longitude (and latitude) of the points
calculateBearingAbsoluteLon(lat1, lon1, lat2, lon2) ==
    IF lon2 >= 1397500000 THEN 3209
    ELSE IF lat2 >= 357500000 THEN 3210
    ELSE 3216

\* atan2(0, 0) is 0: a point has bearing 0 to itself
calculateBearing(lat1, lon1, lat2, lon2) ==
    IF lat1 = lat2 /\ lon1 = lon2 THEN 0
    ELSE LET e == CHOOSE e \in BearingTable :
                      <<e[1], e[2], e[3], e[4]>> = <<lat1, lon1, lat2, lon2>>
         IN  e[5]

\* Mutant: the last photo of a route gets no bearing of its own
BearingAtForwardOnly(s, route, j) ==
    IF j < Len(route)
    THEN calculateBearing(s[route[j] + 1].lat[1], s[route[j] + 1].lon[1],
                          s[route[j + 1] + 1].lat[1], s[route[j + 1] + 1].lon[1])
    ELSE 0

\* The bearing of the j-th photo (1-based) of a time-sorted route of indices:
\* to the next photo, else from the previous one, else 0
BearingAt(s, route, j) ==
    IF j < Len(route)
    THEN calculateBearing(s[route[j] + 1].lat[1], s[route[j] + 1].lon[1],
                          s[route[j + 1] + 1].lat[1], s[route[j + 1] + 1].lon[1])
    ELSE IF j > 1
    THEN calculateBearing(s[route[j - 1] + 1].lat[1], s[route[j - 1] + 1].lon[1],
                          s[route[j] + 1].lat[1], s[route[j] + 1].lon[1])
    ELSE 0

\* Mutant: the bearings are taken along the whole photo sequence, the
\* folders ignored
folderPhotosAll(s, folder) ==
    StableSort([i \in 1..Len(s) |-> i - 1],
               [i \in 0..(Len(s) - 1) |-> Instant(s[i + 1].timestamp)])

\* photosByFolder[folder] after its sort: every photo of the folder, no guard
folderPhotos(s, folder) ==
    StableSort(SelectSeq([i \in 1..Len(s) |-> i - 1],
                         LAMBDA i : s[i + 1].folder = folder),
               [i \in 0..(Len(s) - 1) |-> Instant(s[i + 1].timestamp)])

\* calculatePhotoBearings(): photoBearings[index] for every photo
calculatePhotoBearings(s) ==
    [i \in 0..(Len(s) - 1) |->
        LET group == folderPhotos(s, s[i + 1].folder)
            j == CHOOSE j \in DOMAIN group : group[j] = i
        IN  BearingAt(s, group, j)]

\* generateRouteColors: the base colors, in order
baseColors ==
    <<"#22d3ee", "#f97316", "#a855f7", "#10b981", "#f43f5e", "#3b82f6",
      "#eab308", "#ec4899", "#14b8a6", "#8b5cf6", "#84cc16", "#06b6d4",
      "#f59e0b", "#6366f1", "#ef4444", "#0ea5e9", "#d946ef", "#22c55e">>

\* generateRouteColors(count): colors[i] for i = 0 .. count - 1, as a sequence
generateRouteColors(count) ==
    [i \in 1..count |-> baseColors[((i - 1) % Len(baseColors)) + 1]]

\* Mutant: the spiral is left out and every point stays where it is
getPointOffsetNone(index) == [lat |-> 0, lon |-> 0]

\* const offsetDistance = 0.00003, in units of 1e-7 degree
offsetDistance == 300

\* Mutant: the points are put in a row, offsetDistance apart
getPointOffsetInARow(index) == [lat |-> 0, lon |-> offsetDistance * index]

\* offsetDistance * sqrt(index) * (cos, sin)(index * 137.5 degrees), in units
\* of 1e-7 degree (offsetDistance 0.00003 is 300 units), index = 1..8
SpiralTable ==
    << <<-221, 203>>, <<37, -423>>, <<316, 412>>, <<-591, -104>>,
       <<566, -360>>, <<-190, 710>>, <<-367, -704>>, <<797, 290>> >>

getPointOffset(index) ==
    IF index = 0 THEN [lat |-> 0, lon |-> 0]
    ELSE [lat |-> SpiralTable[index][1], lon |-> SpiralTable[index][2]]

\* coordCounts[key], 0 when the key was never counted
CountOf(counts, key) == IF key \in DOMAIN counts THEN counts[key] ELSE 0

Bump(counts, key) ==
    [k \in DOMAIN counts \cup {key} |->
        IF k = key THEN CountOf(counts, key) + 1 ELSE counts[k]]

\* The offset the viewer applies to the count-th photo at a key
ViewerOffset(count) ==
    IF count > 0 THEN getPointOffset(count) ELSE [lat |-> 0, lon |-> 0]

\* The points of the first n photos of one route of the viewer minimap,
\* starting from counts (routePhotos.forEach): [features, counts]
RECURSIVE ViewerRoutePoints(_, _, _, _, _, _)
ViewerRoutePoints(s, route, n, routeIndex, color, counts) ==
    IF n = 0 THEN [features |-> <<>>, counts |-> counts]
    ELSE LET before == ViewerRoutePoints(s, route, n - 1, routeIndex, color, counts)
             i == route[n]
             photo == s[i + 1]
             key == CoordKey(photo)
             offset == ViewerOffset(CountOf(before.counts, key))
         IN  [features |-> Append(before.features,
                  [type |-> "Point", index |-> i, color |-> color,
                   routeIndex |-> routeIndex,
                   bearing |-> BearingAt(s, route, n),
                   lon |-> photo.lon[1] + offset.lon,
                   lat |-> photo.lat[1] + offset.lat]),
              counts |-> Bump(before.counts, key)]

\* The counter the viewer gives a route: const routeCoordCounts = {}
RouteCoordCounts == <<>>

\* The point features of the viewer minimap (folderNames.forEach)
RECURSIVE ViewerPoints(_, _)
ViewerPoints(s, names) ==
    IF names = <<>> THEN <<>>
    ELSE ViewerPoints(s, SubSeq(names, 1, Len(names) - 1))
         \o ViewerRoutePoints(s, routePhotos(s, names[Len(names)]),
                              Len(routePhotos(s, names[Len(names)])),
                              Len(names) - 1,
                              generateRouteColors(Len(names))[Len(names)],
                              RouteCoordCounts).features

\* Mutant: the line is built for every route, lineCoords.length > 0
RouteLineAlways(s, route, routeIndex, color) ==
    << [type |-> "LineString", color |-> color, routeIndex |-> routeIndex,
        coordinates |-> [j \in 1..Len(route) |->
                            <<s[route[j] + 1].lon[1], s[route[j] + 1].lat[1]>>]] >>

\* The LineString feature of a route, over the stored coordinates: pushed
\* only if (lineCoords.length > 1)
RouteLine(s, route, routeIndex, color) ==
    IF Len(route) > 1
    THEN << [type |-> "LineString", color |-> color, routeIndex |-> routeIndex,
             coordinates |-> [j \in 1..Len(route) |->
                                 <<s[route[j] + 1].lon[1], s[route[j] + 1].lat[1]>>]] >>
    ELSE <<>>

\* The LineString features of the viewer minimap
RECURSIVE ViewerLines(_, _)
ViewerLines(s, names) ==
    IF names = <<>> THEN <<>>
    ELSE ViewerLines(s, SubSeq(names, 1, Len(names) - 1))
         \o RouteLine(s, routePhotos(s, names[Len(names)]), Len(names) - 1,
                      generateRouteColors(Len(names))[Len(names)])

\* The LineString features of the card map: properties { color }
RECURSIVE CardLines(_, _)
CardLines(s, names) ==
    IF names = <<>> THEN <<>>
    ELSE LET route == routePhotos(s, names[Len(names)])
         IN  CardLines(s, SubSeq(names, 1, Len(names) - 1))
             \o (IF Len(route) > 1
                 THEN << [type |-> "LineString",
                          color |-> generateRouteColors(Len(names))[Len(names)],
                          coordinates |-> [j \in 1..Len(route) |->
                              <<s[route[j] + 1].lon[1], s[route[j] + 1].lat[1]>>]] >>
                 ELSE <<>>)

\* activeMarker = null
NoMarker == [kind |-> "null"]

\* photoColors[index] || '#22d3ee': photoColors[r.index] is set as the point
\* of photo r.index is built
PhotoColor(features, index) ==
    IF \E n \in DOMAIN features : features[n].index = index
    THEN features[CHOOSE n \in DOMAIN features : features[n].index = index].color
    ELSE "#22d3ee"

\* The marker set to the place and the route colour of photo index
MarkerAt(s, features, index) ==
    [lon |-> s[index + 1].lon[1], lat |-> s[index + 1].lat[1],
     color |-> PhotoColor(features, index)]

\* addActiveMarker(): photoColors[0] and setLngLat([photos[0].lon, photos[0].lat])
addActiveMarker(s, features) == MarkerAt(s, features, 0)

\* updateActiveMarker(index): if (activeMarker && photos[index])
updateActiveMarker(marker, s, features, index) ==
    IF marker # NoMarker /\ index + 1 \in DOMAIN s
    THEN MarkerAt(s, features, index)
    ELSE marker

\* The points of one route of the home page card map, starting from counts
RECURSIVE CardRoutePoints(_, _, _, _)
CardRoutePoints(s, route, color, counts) ==
    IF route = <<>> THEN [features |-> <<>>, counts |-> counts]
    ELSE LET before == CardRoutePoints(s, SubSeq(route, 1, Len(route) - 1),
                                       color, counts)
             photo == s[route[Len(route)] + 1]
             key == CoordKey(photo)
             offset == getPointOffset(CountOf(before.counts, key))
         IN  [features |-> Append(before.features,
                  [type |-> "Point", color |-> color,
                   lon |-> photo.lon[1] + offset.lon,
                   lat |-> photo.lat[1] + offset.lat]),
              counts |-> Bump(before.counts, key)]

\* The card map: one coordCounts for all routes, threaded through them
RECURSIVE CardPoints(_, _)
CardPoints(s, names) ==
    IF names = <<>> THEN [features |-> <<>>, counts |-> <<>>]
    ELSE LET before == CardPoints(s, SubSeq(names, 1, Len(names) - 1))
             here == CardRoutePoints(s, routePhotos(s, names[Len(names)]),
                                     generateRouteColors(Len(names))[Len(names)],
                                     before.counts)
         IN  [features |-> before.features \o here.features,
              counts |-> here.counts]

(***************************************************************************)
(* The viewer page.                                                        *)
(***************************************************************************)
\* updateEditPanel writes the resolved heading into the two inputs
PanelYaw(photo, adj) == ToFixed1(getPhotoHeading(photo, adj).yaw)
PanelPitch(photo, adj) == ToFixed1(getPhotoHeading(photo, adj).pitch)

\* ... and a status text chosen by the heading's source
PanelStatus(photo, adj) ==
    IF getPhotoHeading(photo, adj).source = "local" THEN "Local edit (not exported)"
    ELSE IF getPhotoHeading(photo, adj).source = "index" THEN "Saved in index.json"
    ELSE "Using default (center)"

\* ... and the reference bearing: (photoBearings[currentIndex] || 0).toFixed(1)
PanelAutoBearing(bearings, index) ==
    ToFixed1(IF index \in DOMAIN bearings THEN bearings[index] ELSE 0)

\* updateEditPanel()
updateEditPanel(photo, adj) ==
    /\ editYaw' = PanelYaw(photo, adj)
    /\ editPitch' = PanelPitch(photo, adj)
    /\ editStatus' = PanelStatus(photo, adj)

NoError == ""
NoOutput == [kind |-> "none"]

\* Loading viewer.html: the module state starts fresh and init() runs:
\* loadHeadingAdjustments, the filter, then the panorama, the map (its
\* 'load' callback still pending), the controls and loadPhoto(0).
\* neighborhoodsData.neighborhoods.find(...) finds no neighborhood of that id
NotFound == [kind |-> "undefined"]

\* The module state and the page elements of a page that has just loaded
PageStart ==
    /\ lastSave' = "none"
    /\ currentIndex' = 0
    /\ editMode' = FALSE
    /\ editYaw' = EmptyText
    /\ editPitch' = EmptyText
    /\ editStatus' = "Using auto-bearing"
    /\ feedbackPending' = FALSE
    /\ mapLoaded' = FALSE
    /\ allFeatures' = <<>>
    /\ routeLines' = <<>>
    /\ cardFeatures' = <<>>
    /\ cardLines' = <<>>
    /\ activeMarker' = NoMarker
    /\ output' = NoOutput

\* No panorama is shown and no button has been touched
NothingShown ==
    /\ panorama' = ""
    /\ prevDisabled' = FALSE
    /\ nextDisabled' = FALSE

\* init() of the viewer stops before it has photos: with an error logged by
\* its catch, or with a redirect to index.html
InitStops(outcome, message) ==
    /\ phase' = outcome
    /\ photos' = <<>>
    /\ photoBearings' = <<>>
    /\ consoleError' = message
    /\ NothingShown

\* init() of the viewer from the filter on; with photos it ends in
\* loadPhoto(0), the marker not yet made
InitFromFilter ==
    /\ photos' = getPhotosForNeighborhood(neighborhood, allPhotos)
    /\ phase' = IF photos' = <<>> THEN "empty" ELSE "viewer"
    /\ photoBearings' = IF photos' = <<>> THEN <<>> ELSE calculatePhotoBearings(photos')
    /\ consoleError' = IF photos' = <<>> THEN "No photos found for neighborhood"
                       ELSE NoError
    /\ IF photos' = <<>>
       THEN NothingShown
       ELSE /\ panorama' = photos'[1].path
            /\ prevDisabled' = TRUE
            /\ nextDisabled' = (Len(photos') = 1)

\* if (!neighborhoodId): the URL has no neighborhood parameter, or an empty one
NoIdParam(id) == id = <<>> \/ id[1] = ""

\* Mutant: loadHeadingAdjustments has no try/catch and the exception of
\* JSON.parse reaches the catch of init()
ViewerInitParseEscapes ==
    /\ PageStart
    /\ IF NoIdParam(neighborhoodId)
       THEN /\ headingAdjustments' = <<>>
            /\ InitStops("redirect", NoError)
       ELSE IF localStorage = Garbage
       THEN /\ headingAdjustments' = <<>>
            /\ InitStops("failed", "Failed to initialize viewer:")
       ELSE /\ headingAdjustments' = loadHeadingAdjustments(localStorage)
            /\ IF ~fetched
               THEN InitStops("failed", "Failed to initialize viewer:")
               ELSE IF neighborhood = NotFound
               THEN InitStops("redirect", NoError)
               ELSE InitFromFilter
    /\ UNCHANGED <<localStorage, dataVars>>

\* Mutant: the two checks of the neighborhood are left out; reading
\* neighborhood.date of undefined throws into the catch of init()
ViewerInitNoLookupCheck ==
    /\ PageStart
    /\ headingAdjustments' = loadHeadingAdjustments(localStorage)
    /\ IF ~fetched \/ NoIdParam(neighborhoodId) \/ neighborhood = NotFound
       THEN InitStops("failed", "Failed to initialize viewer:")
       ELSE InitFromFilter
    /\ UNCHANGED <<localStorage, dataVars>>

ViewerInit ==
    /\ PageStart
    /\ IF NoIdParam(neighborhoodId)
       THEN /\ headingAdjustments' = <<>>
            /\ InitStops("redirect", NoError)
       ELSE /\ headingAdjustments' = loadHeadingAdjustments(localStorage)
            /\ IF ~fetched
               THEN InitStops("failed", "Failed to initialize viewer:")
               ELSE IF neighborhood = NotFound
               THEN InitStops("redirect", NoError)
               ELSE InitFromFilter
    /\ UNCHANGED <<localStorage, dataVars>>

\* The minimap 'load' callback (map.once): builds the point features
MapLoad ==
    /\ phase = "viewer"
    /\ ~mapLoaded
    /\ mapLoaded' = TRUE
    /\ allFeatures' = ViewerPoints(photos, folderNames(photos))
    /\ routeLines' = ViewerLines(photos, folderNames(photos))
    /\ activeMarker' = addActiveMarker(photos, allFeatures')
    /\ output' = NoOutput
    /\ UNCHANGED <<pageVars, panorama, prevDisabled, nextDisabled>>
    /\ UNCHANGED <<phase, dataVars, photos, storeVars, currentIndex, editVars,
                   cardFeatures, cardLines>>

\* Mutant: the guard comes after the buttons are updated
loadPhotoButtonsFirst(index) ==
    /\ prevDisabled' = (index = 0)
    /\ nextDisabled' = (index = Len(photos) - 1)
    /\ IF index < 0 \/ index >= Len(photos)
       THEN UNCHANGED <<currentIndex, editVars, panorama, activeMarker>>
       ELSE /\ currentIndex' = index
            /\ panorama' = photos[index + 1].path
            /\ activeMarker' = updateActiveMarker(activeMarker, photos, allFeatures, index)
            /\ UNCHANGED <<editMode, feedbackPending>>
            /\ IF editMode
               THEN updateEditPanel(photos[index + 1], headingAdjustments)
               ELSE UNCHANGED <<editYaw, editPitch, editStatus>>

\* loadPhoto(index): the panorama of the photo, the buttons, the marker (if
\* there is one) and the edit panel (if open)
loadPhoto(index) ==
    IF index < 0 \/ index >= Len(photos)
    THEN UNCHANGED <<currentIndex, editVars, shownVars>>
    ELSE /\ currentIndex' = index
         /\ panorama' = photos[index + 1].path
         /\ prevDisabled' = (index = 0)
         /\ nextDisabled' = (index = Len(photos) - 1)
         /\ activeMarker' = updateActiveMarker(activeMarker, photos, allFeatures, index)
         /\ UNCHANGED <<editMode, feedbackPending>>
         /\ IF editMode
            THEN updateEditPanel(photos[index + 1], headingAdjustments)
            ELSE UNCHANGED <<editYaw, editPitch, editStatus>>

\* prev button, ArrowLeft, a
PrevPhoto ==
    /\ phase = "viewer"
    /\ loadPhoto(currentIndex - 1)
    /\ output' = NoOutput
    /\ UNCHANGED pageVars
    /\ UNCHANGED <<phase, dataVars, photos, storeVars, mapVars>>

\* next button, ArrowRight, d
NextPhoto ==
    /\ phase = "viewer"
    /\ loadPhoto(currentIndex + 1)
    /\ output' = NoOutput
    /\ UNCHANGED pageVars
    /\ UNCHANGED <<phase, dataVars, photos, storeVars, mapVars>>

\* click on a map point: loadPhoto(feature.properties.index)
MapClick ==
    /\ phase = "viewer"
    /\ \E i \in DOMAIN allFeatures :
          loadPhoto(allFeatures[i].index)
    /\ output' = NoOutput
    /\ UNCHANGED pageVars
    /\ UNCHANGED <<phase, dataVars, photos, storeVars, mapVars>>

\* key e / E
toggleEditMode ==
    /\ phase = "viewer"
    /\ editMode' = ~editMode
    /\ IF editMode'
       THEN updateEditPanel(photos[currentIndex + 1], headingAdjustments)
       ELSE UNCHANGED <<editYaw, editPitch, editStatus>>
    /\ output' = NoOutput
    /\ UNCHANGED <<pageVars, shownVars>>
    /\ UNCHANGED <<phase, dataVars, photos, storeVars, currentIndex, feedbackPending,
                   mapVars>>

\* showEditFeedback(message): the message replaces the status text until the
\* timeout runs updateEditPanel
showEditFeedback(message) ==
    /\ editStatus' = message
    /\ feedbackPending' = TRUE

\* Texts the user types into the inputs
YawTexts == {EmptyText, <<1000>>}
PitchTexts == {EmptyText, <<-500>>}

\* 'input' on #edit-yaw: the user's new value (applyEditedHeading moves only
\* the panorama, an external renderer)
TypeYaw ==
    /\ phase = "viewer"
    /\ editMode
    /\ \E text \in YawTexts : editYaw' = text
    /\ output' = NoOutput
    /\ UNCHANGED <<pageVars, shownVars>>
    /\ UNCHANGED <<phase, dataVars, photos, storeVars, currentIndex, editMode,
                   editPitch, editStatus, feedbackPending, mapVars>>

\* 'input' on #edit-pitch: the user's new value
TypePitch ==
    /\ phase = "viewer"
    /\ editMode
    /\ \E text \in PitchTexts : editPitch' = text
    /\ output' = NoOutput
    /\ UNCHANGED <<pageVars, shownVars>>
    /\ UNCHANGED <<phase, dataVars, photos, storeVars, currentIndex, editMode,
                   editYaw, editStatus, feedbackPending, mapVars>>

\* Mutant: setItem is given the store as it was before the mutation
saveHeadingAdjustmentsStale(adj) ==
    IF ~storageFull
    THEN /\ localStorage' = JSONstringify(headingAdjustments)
         /\ lastSave' = "ok"
    ELSE /\ localStorage' = localStorage
         /\ lastSave' = "failed"

\* saveHeadingAdjustments(): setItem stores the whole store, or throws
\* (quota) and the catch logs the failure
saveHeadingAdjustments(adj) ==
    IF ~storageFull
    THEN /\ localStorage' = JSONstringify(adj)
         /\ lastSave' = "ok"
    ELSE /\ localStorage' = localStorage
         /\ lastSave' = "failed"

\* Mutant: the override is not kept when the storage is full
UpsertUnlessFull(adj, path, yawText, pitchText) ==
    IF storageFull THEN adj
    ELSE Assign(adj, path, [yaw |-> OrZero(ParseFloat(yawText)),
                            pitch |-> OrZero(ParseFloat(pitchText))])

\* Mutant: a path that already has an override keeps it
UpsertKeepsOld(adj, path, yawText, pitchText) ==
    IF path \in DOMAIN adj THEN adj
    ELSE Assign(adj, path, [yaw |-> OrZero(ParseFloat(yawText)),
                            pitch |-> OrZero(ParseFloat(pitchText))])

\* The store after headingAdjustments[photo.path] = { yaw, pitch }
Upsert(adj, path, yawText, pitchText) ==
    Assign(adj, path, [yaw |-> OrZero(ParseFloat(yawText)),
                       pitch |-> OrZero(ParseFloat(pitchText))])

\* Mutant: reset empties the whole store
RemoveAll(adj, path) == <<>>

\* The store after delete headingAdjustments[photo.path]
Remove(adj, path) == Delete(adj, path)

\* Mutant: Save writes the heading into the photo record, not into the store
saveCurrentHeadingIntoRecord ==
    /\ phase = "viewer"
    /\ editMode
    /\ photos' = [photos EXCEPT
                     ![currentIndex + 1].yaw = <<OrZero(ParseFloat(editYaw))>>,
                     ![currentIndex + 1].pitch = <<OrZero(ParseFloat(editPitch))>>]
    /\ headingAdjustments' = headingAdjustments
    /\ saveHeadingAdjustments(headingAdjustments')
    /\ editYaw' = PanelYaw(photos'[currentIndex + 1], headingAdjustments')
    /\ editPitch' = PanelPitch(photos'[currentIndex + 1], headingAdjustments')
    /\ showEditFeedback("Saved!")
    /\ output' = NoOutput
    /\ UNCHANGED <<pageVars, shownVars>>
    /\ UNCHANGED <<phase, dataVars, currentIndex, editMode, mapVars>>

\* Save button, Cmd+S
saveCurrentHeading ==
    /\ phase = "viewer"
    /\ editMode
    /\ headingAdjustments' =
          Upsert(headingAdjustments, photos[currentIndex + 1].path, editYaw, editPitch)
    /\ saveHeadingAdjustments(headingAdjustments')
    /\ editYaw' = PanelYaw(photos[currentIndex + 1], headingAdjustments')
    /\ editPitch' = PanelPitch(photos[currentIndex + 1], headingAdjustments')
    /\ showEditFeedback("Saved!")
    /\ output' = NoOutput
    /\ UNCHANGED <<pageVars, shownVars>>
    /\ UNCHANGED <<phase, dataVars, photos, currentIndex, editMode, mapVars>>

\* Reset button: the store, then loadPhoto(currentIndex), updateEditPanel and
\* the feedback
resetCurrentHeading ==
    /\ phase = "viewer"
    /\ editMode
    /\ headingAdjustments' =
          Remove(headingAdjustments, photos[currentIndex + 1].path)
    /\ saveHeadingAdjustments(headingAdjustments')
    /\ editYaw' = PanelYaw(photos[currentIndex + 1], headingAdjustments')
    /\ editPitch' = PanelPitch(photos[currentIndex + 1], headingAdjustments')
    /\ showEditFeedback(IF \/ photos[currentIndex + 1].yaw # Undefined
                           \/ photos[currentIndex + 1].pitch # Undefined
                        THEN "Reset to index value" ELSE "Reset to default")
    /\ output' = NoOutput
    /\ UNCHANGED <<pageVars, shownVars>>
    /\ UNCHANGED <<phase, dataVars, photos, currentIndex, editMode, mapVars>>

\* The timeout of showEditFeedback: updateEditPanel() restores the status
FeedbackTimeout ==
    /\ phase = "viewer"
    /\ feedbackPending
    /\ feedbackPending' = FALSE
    /\ updateEditPanel(photos[currentIndex + 1], headingAdjustments)
    /\ output' = NoOutput
    /\ UNCHANGED <<pageVars, shownVars>>
    /\ UNCHANGED <<phase, dataVars, photos, storeVars, currentIndex, editMode,
                   mapVars>>

\* The yaw and pitch the panorama shows when "Use current view" is clicked
\* (the user has dragged it there): 10.04 and -4.96 degrees
ViewYaws == {1004}
ViewPitches == {-496}

\* "Use current view" button: the panorama's yaw and pitch go into the inputs
useCurrentView ==
    /\ phase = "viewer"
    /\ editMode
    /\ \E currentYaw \in ViewYaws, currentPitch \in ViewPitches :
          /\ editYaw' = ToFixed1(currentYaw)
          /\ editPitch' = ToFixed1(currentPitch)
    /\ output' = NoOutput
    /\ UNCHANGED <<pageVars, shownVars>>
    /\ UNCHANGED <<phase, dataVars, photos, storeVars, currentIndex, editMode,
                   editStatus, feedbackPending, mapVars>>

\* new Date().toISOString() at the time of an export
Now == "2025-12-20T03:00:00.000Z"

Count(adj) == Cardinality(DOMAIN adj)

\* Mutant: count is the number of photos of the page
ExportDataCountsPhotos(adj) ==
    [exported |-> Now, count |-> Len(photos), adjustments |-> adj]

\* The document JSON.stringify(exportData, null, 2) denotes
ExportData(adj) ==
    [exported |-> Now, count |-> Count(adj), adjustments |-> adj]

\* Mutant: the exported edits are dropped from the in-memory store
exportAdjustmentsClearing ==
    /\ phase = "viewer"
    /\ editMode
    /\ headingAdjustments' = <<>>
    /\ UNCHANGED <<localStorage, lastSave>>
    /\ IF Count(headingAdjustments) = 0
       THEN /\ output' = [kind |-> "alert",
                          text |-> "No heading adjustments to export."]
            /\ UNCHANGED <<editStatus, feedbackPending>>
       ELSE /\ output' = [kind |-> "download",
                          document |-> ExportData(headingAdjustments)]
            /\ showEditFeedback("Exported " \o ToString(Count(headingAdjustments))
                                    \o " adjustments")
    /\ UNCHANGED <<pageVars, shownVars>>
    /\ UNCHANGED <<phase, dataVars, photos, currentIndex, editMode, editYaw,
                   editPitch, mapVars>>

\* Export button
exportAdjustments ==
    /\ phase = "viewer"
    /\ editMode
    /\ UNCHANGED storeVars
    /\ IF Count(headingAdjustments) = 0
       THEN /\ output' = [kind |-> "alert",
                          text |-> "No heading adjustments to export."]
            /\ UNCHANGED <<editStatus, feedbackPending>>
       ELSE /\ output' = [kind |-> "download",
                          document |-> ExportData(headingAdjustments)]
            /\ showEditFeedback("Exported " \o ToString(Count(headingAdjustments))
                                    \o " adjustments")
    /\ UNCHANGED <<pageVars, shownVars>>
    /\ UNCHANGED <<phase, dataVars, photos, currentIndex, editMode, editYaw,
                   editPitch, mapVars>>

\* The environment: other sites' data fills the storage quota, or frees it
ToggleStorageFull ==
    /\ storageFull' = ~storageFull
    /\ UNCHANGED <<phase, allPhotos, fetched, neighborhoodId, neighborhood, photos,
                   localStorage, headingAdjustments, lastSave, currentIndex,
                   editVars, mapVars, pageVars, shownVars, output>>

(***************************************************************************)
(* The home page.                                                          *)
(***************************************************************************)
\* Loading index.html: init() gives the neighborhood its photos; a
\* neighborhood that is not in neighborhoods.json has no card and no photos
HomeInit ==
    /\ PageStart
    /\ NothingShown
    /\ phase' = "home"
    /\ headingAdjustments' = <<>>
    /\ photoBearings' = <<>>
    /\ IF ~fetched
       THEN /\ photos' = <<>>
            /\ consoleError' = "Failed to initialize:"
       ELSE /\ photos' = IF neighborhood = NotFound THEN <<>>
                          ELSE getPhotosForNeighborhood(neighborhood, allPhotos)
            /\ consoleError' = NoError
    /\ UNCHANGED <<localStorage, dataVars>>

\* The card map 'load' callback of initCardMap
CardMapLoad ==
    /\ phase = "home"
    /\ ~mapLoaded
    /\ mapLoaded' = TRUE
    /\ cardFeatures' = CardPoints(photos, folderNames(photos)).features
    /\ cardLines' = CardLines(photos, folderNames(photos))
    /\ output' = NoOutput
    /\ UNCHANGED <<pageVars, shownVars>>
    /\ UNCHANGED <<phase, dataVars, photos, storeVars, currentIndex, editVars,
                   allFeatures, routeLines>>

(***************************************************************************)
(* Input data.                                                             *)
(***************************************************************************)
Photo(path, date, timestamp, lat, lon, folder, yaw, pitch) ==
    [path |-> path, date |-> date, timestamp |-> timestamp, lat |-> lat,
     lon |-> lon, folder |-> folder, yaw |-> yaw, pitch |-> pitch]

\* path is the primary key of a photo: the i-th record of a collection
PathNames == <<"a.jpg", "b.jpg", "c.jpg", "d.jpg", "e.jpg", "f.jpg", "g.jpg", "h.jpg">>

Named(bodies) == [i \in DOMAIN bodies |-> [bodies[i] EXCEPT !.path = PathNames[i]]]

SeqsUpTo(S, n) == UNION {[1..k -> S] : k \in 1..n}

Noon == [wall |-> 720, off |-> 540]

\* Photos that differ in their persisted heading only
HeadingBodies ==
    {Photo("", "2025-12-09", Noon, <<357000000>>, <<1397000000>>, "F1", y, p) :
        <<y, p>> \in {<<Undefined, Undefined>>, <<(<<1234>>), Undefined>>,
                      <<Undefined, (<<-500>>)>>}}

\* The state of a page that has not run yet
Fresh ==
    /\ phase = "boot"
    /\ photos = <<>>
    /\ headingAdjustments = <<>>
    /\ lastSave = "none"
    /\ currentIndex = 0
    /\ editMode = FALSE
    /\ editYaw = EmptyText
    /\ editPitch = EmptyText
    /\ editStatus = "Using auto-bearing"
    /\ feedbackPending = FALSE
    /\ mapLoaded = FALSE
    /\ allFeatures = <<>>
    /\ routeLines = <<>>
    /\ cardFeatures = <<>>
    /\ cardLines = <<>>
    /\ panorama = ""
    /\ prevDisabled = FALSE
    /\ nextDisabled = FALSE
    /\ activeMarker = NoMarker
    /\ photoBearings = <<>>
    /\ consoleError = NoError
    /\ output = NoOutput

(***************************************************************************)
(* Spec: the viewer page over photos with every persisted heading, and the *)
(* override store across sessions.                                         *)
(***************************************************************************)
Init ==
    /\ Fresh
    /\ allPhotos \in {Named(b) : b \in SeqsUpTo(HeadingBodies, MaxPhotos)}
    /\ neighborhood = [date |-> "2025-12-09", timeRange |-> NoRange]
    /\ fetched = TRUE
    /\ neighborhoodId = <<"n1">>
    /\ localStorage = NoItem
    /\ storageFull = FALSE

Next ==
    \/ ViewerInit
    \/ PrevPhoto
    \/ NextPhoto
    \/ toggleEditMode
    \/ TypeYaw
    \/ TypePitch
    \/ saveCurrentHeading
    \/ resetCurrentHeading
    \/ FeedbackTimeout

Spec == Init /\ [][Next]_vars

(***************************************************************************)
(* SpecQuota: the override store when durable writes can fail (the quota   *)
(* fills up and frees again) and when the stored text does not parse.      *)
(***************************************************************************)
\* Photos with a yaw of 12.34 in index.json; the store starts as a text that
\* does not parse
QuotaBodies ==
    {Photo("", "2025-12-09", Noon, <<357000000>>, <<1397000000>>, "F1",
           <<1234>>, Undefined)}

InitQuota ==
    /\ Fresh
    /\ allPhotos \in {Named(b) : b \in SeqsUpTo(QuotaBodies, MaxPhotos)}
    /\ neighborhood = [date |-> "2025-12-09", timeRange |-> NoRange]
    /\ fetched = TRUE
    /\ neighborhoodId = <<"n1">>
    /\ localStorage = Garbage
    /\ storageFull = FALSE

NextQuota ==
    \/ ViewerInit
    \/ PrevPhoto
    \/ NextPhoto
    \/ toggleEditMode
    \/ TypeYaw
    \/ saveCurrentHeading
    \/ resetCurrentHeading
    \/ FeedbackTimeout
    \/ ToggleStorageFull

SpecQuota == InitQuota /\ [][NextQuota]_vars

(***************************************************************************)
(* SpecPanel: every handler of the viewer page (navigation, the map, the   *)
(* edit panel with its export), durable writes succeeding.                 *)
(***************************************************************************)
InitPanel ==
    /\ Fresh
    /\ allPhotos \in {Named(b) : b \in SeqsUpTo(QuotaBodies, MaxPhotos)}
    /\ neighborhood = [date |-> "2025-12-09", timeRange |-> NoRange]
    /\ fetched = TRUE
    /\ neighborhoodId = <<"n1">>
    /\ localStorage = NoItem
    /\ storageFull = FALSE

NextPanel ==
    \/ ViewerInit
    \/ MapLoad
    \/ MapClick
    \/ PrevPhoto
    \/ NextPhoto
    \/ toggleEditMode
    \/ TypeYaw
    \/ TypePitch
    \/ useCurrentView
    \/ saveCurrentHeading
    \/ resetCurrentHeading
    \/ exportAdjustments
    \/ FeedbackTimeout

SpecPanel == InitPanel /\ [][NextPanel]_vars

(***************************************************************************)
(* SpecOutcomes: the ways init() can end: with photos, with no qualifying  *)
(* photo, with no such neighborhood, with a failed fetch.                  *)
(***************************************************************************)
MaxOutcomePhotos == 2

OutcomeBodies ==
    {Photo("", d, [wall |-> t, off |-> 540], c[1], c[2], "F1", Undefined, Undefined) :
        d \in {"2025-12-09", "2025-12-10"}, t \in {720, 721},
        c \in {<<(<<357000000>>), (<<1397000000>>)>>,
               <<Undefined, (<<1397000000>>)>>}}

InitOutcomes ==
    /\ Fresh
    /\ allPhotos \in {Named(b) : b \in SeqsUpTo(OutcomeBodies, MaxOutcomePhotos)}
                        \cup {<<>>}
    /\ fetched \in BOOLEAN
    /\ neighborhoodId \in {<<>>, <<"">>, <<"n1">>}
    /\ neighborhood \in
          {[date |-> "2025-12-09", timeRange |-> NoRange],
           [date |-> "2025-12-11", timeRange |-> NoRange],
           NotFound}
    /\ localStorage = NoItem
    /\ storageFull = FALSE

NextOutcomes ==
    \/ ViewerInit
    \/ HomeInit
    \/ MapLoad
    \/ NextPhoto

SpecOutcomes == InitOutcomes /\ [][NextOutcomes]_vars

(***************************************************************************)
(* SpecFilter: the filter of both pages over photos of two dates, with     *)
(* missing and zero coordinates, around an inclusive time range.           *)
(***************************************************************************)
MaxFilterPhotos == 2

RangeStart == [wall |-> 600, off |-> 540]
RangeEnd == [wall |-> 660, off |-> 540]

\* a minute before the start; the start itself, written in UTC; the end; a
\* minute after the end
FilterTimes ==
    {[wall |-> 599, off |-> 540], [wall |-> 60, off |-> 0],
     [wall |-> 660, off |-> 540], [wall |-> 661, off |-> 540]}

FilterCoords ==
    {<<(<<357000000>>), (<<1397000000>>)>>, <<Undefined, (<<1397000000>>)>>,
     <<(<<0>>), (<<1397000000>>)>>, <<(<<357000000>>), (<<0>>)>>}

FilterBodies ==
    {Photo("", d, t, c[1], c[2], "F1", Undefined, Undefined) :
        d \in {"2025-12-09", "2025-12-10"}, t \in FilterTimes, c \in FilterCoords}

InitFilter ==
    /\ Fresh
    /\ allPhotos \in {Named(b) : b \in SeqsUpTo(FilterBodies, MaxFilterPhotos)}
    /\ neighborhood \in
          {[date |-> "2025-12-09", timeRange |-> NoRange],
           [date |-> "2025-12-09",
            timeRange |-> [start |-> RangeStart, end |-> RangeEnd]]}
    /\ fetched = TRUE
    /\ neighborhoodId = <<"n1">>
    /\ localStorage = NoItem
    /\ storageFull = FALSE

NextFilter ==
    \/ ViewerInit
    \/ HomeInit

SpecFilter == InitFilter /\ [][NextFilter]_vars

(***************************************************************************)
(* SpecMap: the point features of the viewer minimap and of the home page  *)
(* card map over photos of two routes that share coordinates.              *)
(***************************************************************************)
MaxMapPhotos == 3

\* one point, a point 3e-7 degree north of it (same 6-decimal key), and the
\* point where the spiral puts the second photo of the first one's key
MapCoords ==
    {<<357000000, 1397000000>>, <<357000003, 1397000000>>,
     <<357000000 + SpiralTable[1][1], 1397000000 + SpiralTable[1][2]>>}

MapBodies ==
    {Photo("", "2025-12-09", [wall |-> t, off |-> 540], <<c[1]>>, <<c[2]>>, f,
           Undefined, Undefined) :
        t \in {720, 721}, c \in MapCoords, f \in {"F1", "F2"}}

InitMap ==
    /\ Fresh
    /\ allPhotos \in {Named(b) : b \in SeqsUpTo(MapBodies, MaxMapPhotos)}
    /\ neighborhood = [date |-> "2025-12-09", timeRange |-> NoRange]
    /\ fetched = TRUE
    /\ neighborhoodId = <<"n1">>
    /\ localStorage = NoItem
    /\ storageFull = FALSE

NextMap ==
    \/ ViewerInit
    \/ MapLoad
    \/ MapClick
    \/ PrevPhoto
    \/ NextPhoto
    \/ HomeInit
    \/ CardMapLoad

SpecMap == InitMap /\ [][NextMap]_vars

(***************************************************************************)
(* SpecSpiral: the viewer minimap over one route of photos that were all   *)
(* taken at one place.                                                     *)
(***************************************************************************)
MaxSpiralPhotos == 6

SpiralBodies ==
    {Photo("", "2025-12-09", [wall |-> t, off |-> 540], <<357000000>>,
           <<1397000000>>, "F1", Undefined, Undefined) : t \in {720, 721}}

InitSpiral ==
    /\ Fresh
    /\ allPhotos \in {Named(b) : b \in SeqsUpTo(SpiralBodies, MaxSpiralPhotos)}
    /\ neighborhood = [date |-> "2025-12-09", timeRange |-> NoRange]
    /\ fetched = TRUE
    /\ neighborhoodId = <<"n1">>
    /\ localStorage = NoItem
    /\ storageFull = FALSE

NextSpiral ==
    \/ ViewerInit
    \/ MapLoad
    \/ MapClick

SpecSpiral == InitSpiral /\ [][NextSpiral]_vars

(***************************************************************************)
(* SpecRoutes: both maps over photos whose folders are named "F1", "7" and *)
(* "3", in every order of first occurrence.                                *)
(***************************************************************************)
MaxRoutePhotos == 3

RouteBodies ==
    {Photo("", "2025-12-09", [wall |-> t, off |-> 540], <<357000000>>,
           <<1397000000>>, f, Undefined, Undefined) :
        t \in {720, 721}, f \in {"F1", "7", "3"}}

InitRoutes ==
    /\ Fresh
    /\ allPhotos \in {Named(b) : b \in SeqsUpTo(RouteBodies, MaxRoutePhotos)}
    /\ neighborhood = [date |-> "2025-12-09", timeRange |-> NoRange]
    /\ fetched = TRUE
    /\ neighborhoodId = <<"n1">>
    /\ localStorage = NoItem
    /\ storageFull = FALSE

NextRoutes ==
    \/ ViewerInit
    \/ MapLoad
    \/ MapClick
    \/ HomeInit
    \/ CardMapLoad

SpecRoutes == InitRoutes /\ [][NextRoutes]_vars

(***************************************************************************)
(* Properties of the heading resolver and the override store.              *)
(***************************************************************************)
\* x ?? 0
Nullish(x) == IF x = Undefined THEN 0 ELSE x[1]

\* The number a text of an input denotes, 0 for a text that is no number
TypedNumber(text) == IF text = EmptyText THEN 0 ELSE text[1]

HasLocal(photo) == photo.path \in DOMAIN headingAdjustments
HasPersisted(photo) == photo.yaw # Undefined \/ photo.pitch # Undefined
CurrentPhoto == photos[currentIndex + 1]

\* C1: heading resolution follows local override > persisted value > default:
\* a photo with a local override resolves to it with source "local"; else a
\* photo with yaw or pitch in its record resolves to the persisted value; else
\* to {yaw: 0, pitch: 0, source: "default"}.
C1_Precedence ==
    phase = "viewer" =>
        \A i \in DOMAIN photos :
            LET photo == photos[i]
                h == getPhotoHeading(photo, headingAdjustments)
            IN  /\ HasLocal(photo) =>
                      h = [yaw |-> headingAdjustments[photo.path].yaw,
                           pitch |-> headingAdjustments[photo.path].pitch,
                           source |-> "local"]
                /\ ~HasLocal(photo) /\ HasPersisted(photo) =>
                      /\ h.yaw = Nullish(photo.yaw)
                      /\ h.pitch = Nullish(photo.pitch)
                      /\ h.source \notin {"local", "default"}
                /\ ~HasLocal(photo) /\ ~HasPersisted(photo) =>
                      h = [yaw |-> 0, pitch |-> 0, source |-> "default"]

\* A photo with a persisted yaw of 12.34 and a different local override, shown
\* as a local edit, beside a photo with no override
C1_Witness ==
    /\ phase = "viewer"
    /\ editMode
    /\ HasLocal(CurrentPhoto)
    /\ CurrentPhoto.yaw = <<1234>>
    /\ headingAdjustments[CurrentPhoto.path].yaw = 1000
    /\ editStatus = "Local edit (not exported)"
    /\ \E i \in DOMAIN photos : ~HasLocal(photos[i])

\* C2: after saveOverride(p, y, t) resolve(p) is {yaw: y, pitch: t, source:
\* "local"}; after a clearOverride(p) resolve(p) no longer has source "local".
C2_SaveThenClear ==
    [][/\ saveCurrentHeading =>
             getPhotoHeading(CurrentPhoto, headingAdjustments')
                = [yaw |-> TypedNumber(editYaw), pitch |-> TypedNumber(editPitch),
                   source |-> "local"]
       /\ resetCurrentHeading =>
             getPhotoHeading(CurrentPhoto, headingAdjustments').source # "local"
      ]_vars

\* Save has just stored (10, -5) for the photo shown, replacing another override
C2_Witness ==
    /\ phase = "viewer"
    /\ editMode
    /\ editStatus = "Saved!"
    /\ HasLocal(CurrentPhoto)
    /\ headingAdjustments[CurrentPhoto.path] = [yaw |-> 1000, pitch |-> -500]
    /\ localStorage = JSONstringify(headingAdjustments)

\* C4: clearOverride(p) removes only the local override of p: resolve(p) then
\* gives the persisted value if the record has yaw or pitch, else the default,
\* and the overrides of all other paths and the photo records are unchanged.
C4_ClearOnlyLocal ==
    [][resetCurrentHeading =>
          LET h == getPhotoHeading(CurrentPhoto, headingAdjustments')
          IN  /\ DOMAIN headingAdjustments'
                    = DOMAIN headingAdjustments \ {CurrentPhoto.path}
              /\ \A q \in DOMAIN headingAdjustments' :
                    headingAdjustments'[q] = headingAdjustments[q]
              /\ photos' = photos
              /\ HasPersisted(CurrentPhoto) =>
                    /\ h.yaw = Nullish(CurrentPhoto.yaw)
                    /\ h.pitch = Nullish(CurrentPhoto.pitch)
                    /\ h.source \notin {"local", "default"}
              /\ ~HasPersisted(CurrentPhoto) =>
                    h = [yaw |-> 0, pitch |-> 0, source |-> "default"]
      ]_vars

\* Reset has just fallen back to a persisted yaw of 12.34 while another
\* photo keeps its override
C4_Witness ==
    /\ phase = "viewer"
    /\ editMode
    /\ editStatus = "Reset to index value"
    /\ ~HasLocal(CurrentPhoto)
    /\ CurrentPhoto.yaw = <<1234>>
    /\ editYaw = <<1230>>
    /\ \E i \in DOMAIN photos : HasLocal(photos[i])

\* C5: after saves and clears whose durable write succeeded, the value under
\* the storage key is the whole in-memory override store: its text is the
\* serialisation of the store and parses back to every entry of it.
C5_WholeStoreWritten ==
    lastSave = "ok" =>
        /\ localStorage = JSONstringify(headingAdjustments)
        /\ loadHeadingAdjustments(localStorage) = headingAdjustments

\* Two overrides in the store and both in the stored text, after a save
C5_Witness ==
    /\ phase = "viewer"
    /\ lastSave = "ok"
    /\ Cardinality(DOMAIN headingAdjustments) = 2
    /\ Cardinality(localStorage.members) = 2
    /\ \E p \in DOMAIN headingAdjustments : headingAdjustments[p].yaw = 1000
    /\ editStatus = "Saved!"

\* C6: overrides survive across sessions: when no write of the session
\* failed, the startup load of the next session yields the store the session
\* ended with, and every photo resolves as before.
C6_SurvivesSessions ==
    [][ViewerInit /\ lastSave # "failed" =>
          /\ headingAdjustments' = headingAdjustments
          /\ \A i \in DOMAIN allPhotos :
                getPhotoHeading(allPhotos[i], headingAdjustments')
                    = getPhotoHeading(allPhotos[i], headingAdjustments)
      ]_vars

\* A new session has started with an override it did not write itself
C6_Witness ==
    /\ phase = "viewer"
    /\ lastSave = "none"
    /\ ~editMode
    /\ \E i \in DOMAIN photos :
          /\ HasLocal(photos[i])
          /\ photos[i].yaw = <<1234>>
          /\ getPhotoHeading(photos[i], headingAdjustments)
                = [yaw |-> 1000, pitch |-> 0, source |-> "local"]

\* C7 as stated: with no local override and yaw or pitch in the record,
\* resolve returns {yaw: photo.yaw ?? 0, pitch: photo.pitch ?? 0} with the
\* source tag "persisted".
C7_TagPersisted ==
    phase = "viewer" =>
        \A i \in DOMAIN photos :
            ~HasLocal(photos[i]) /\ HasPersisted(photos[i]) =>
                getPhotoHeading(photos[i], headingAdjustments)
                    = [yaw |-> Nullish(photos[i].yaw),
                       pitch |-> Nullish(photos[i].pitch),
                       source |-> "persisted"]

\* C7 amended: with no local override and yaw or pitch in the record, resolve
\* returns {yaw: photo.yaw ?? 0, pitch: photo.pitch ?? 0} with the source tag
\* "index", which the edit panel reports as "Saved in index.json".
C7_TagIndex ==
    phase = "viewer" =>
        /\ \A i \in DOMAIN photos :
              ~HasLocal(photos[i]) /\ HasPersisted(photos[i]) =>
                  getPhotoHeading(photos[i], headingAdjustments)
                      = [yaw |-> Nullish(photos[i].yaw),
                         pitch |-> Nullish(photos[i].pitch),
                         source |-> "index"]
        /\ editMode /\ ~feedbackPending
              /\ ~HasLocal(CurrentPhoto) /\ HasPersisted(CurrentPhoto) =>
                  editStatus = "Saved in index.json"

\* The panel shows a photo whose record has a pitch and no yaw
C7_Witness ==
    /\ phase = "viewer"
    /\ editMode
    /\ ~HasLocal(CurrentPhoto)
    /\ CurrentPhoto.yaw = Undefined
    /\ CurrentPhoto.pitch = <<-500>>
    /\ editStatus = "Saved in index.json"
    /\ editYaw = <<0>>

(***************************************************************************)
(* Properties of the neighborhood filter.                                  *)
(***************************************************************************)
\* A photo meets the three stated conditions: its date is the neighborhood's,
\* lat and lon are both defined, and its instant is within the range if set
MeetsConditions(n, photo) ==
    /\ photo.date = n.date
    /\ photo.lat # Undefined /\ photo.lon # Undefined
    /\ n.timeRange # NoRange =>
          /\ Instant(n.timeRange.start) <= Instant(photo.timestamp)
          /\ Instant(photo.timestamp) <= Instant(n.timeRange.end)

\* C3: getPhotosForNeighborhood(N, P) returns exactly the photos of P whose
\* date equals N.date, whose lat and lon are both defined (whatever their
\* numeric value) and, when N.timeRange is set, whose instant lies in
\* [start, end] with both bounds inclusive.
C3_ExactlyQualifying ==
    phase \in {"viewer", "empty", "home"} =>
        Range(photos) = {allPhotos[i] : i \in
                            {j \in DOMAIN allPhotos :
                                MeetsConditions(neighborhood, allPhotos[j])}}

\* C13: the sequence the filter returns is in ascending order of timestamp
\* (as instants): result[i] is not later than result[j] whenever i < j.
C13_AscendingTimestamps ==
    phase \in {"viewer", "empty", "home"} =>
        \A i, j \in DOMAIN photos :
            i < j => Instant(photos[i].timestamp) <= Instant(photos[j].timestamp)

\* Two photos returned in the reverse of their collection order; the earlier
\* one shows the later clock time, in another UTC offset
C13_Witness ==
    /\ phase = "viewer"
    /\ Len(photos) = 2
    /\ photos[1].path = "b.jpg"
    /\ photos[2].path = "a.jpg"
    /\ photos[1].timestamp.wall > photos[2].timestamp.wall
    /\ Instant(photos[1].timestamp) < Instant(photos[2].timestamp)

(***************************************************************************)
(* Properties of the map point features.                                   *)
(***************************************************************************)
\* The photos (0-based indices into s) in the order their points are built:
\* route after route, each route in time order
RECURSIVE BuildOrder(_, _)
BuildOrder(s, names) ==
    IF names = <<>> THEN <<>>
    ELSE BuildOrder(s, SubSeq(names, 1, Len(names) - 1))
         \o routePhotos(s, names[Len(names)])

PointOrder == BuildOrder(photos, folderNames(photos))

PhotoAt(n) == photos[PointOrder[n] + 1]

\* The number of earlier photos of the same route with the same rounded key
EarlierSameRouteSameKey(n) ==
    Cardinality({m \in 1..(n - 1) :
                    /\ PhotoAt(m).folder = PhotoAt(n).folder
                    /\ CoordKey(PhotoAt(m)) = CoordKey(PhotoAt(n))})

SamePosition(f, g) == f.lat = g.lat /\ f.lon = g.lon

\* The feature is the photo moved by the spiral offset of index k
PlacedWithIndex(f, photo, k) ==
    /\ f.lat = photo.lat[1] + getPointOffset(k).lat
    /\ f.lon = photo.lon[1] + getPointOffset(k).lon

\* C8 as stated: among the point features of a neighborhood's map no two
\* photos are rendered at the same position, also when photos share exact
\* coordinates within a route or across routes.
C8_AllPositionsDistinct ==
    phase = "viewer" /\ mapLoaded =>
        \A i, j \in DOMAIN allFeatures :
            i # j => ~SamePosition(allFeatures[i], allFeatures[j])

\* C8 amended: in the viewer minimap no two photos of the same route that
\* share exact coordinates are rendered at the same position.
C8_SameRouteDistinct ==
    phase = "viewer" /\ mapLoaded =>
        \A i, j \in DOMAIN allFeatures :
            /\ i # j
            /\ allFeatures[i].routeIndex = allFeatures[j].routeIndex
            /\ photos[allFeatures[i].index + 1].lat = photos[allFeatures[j].index + 1].lat
            /\ photos[allFeatures[i].index + 1].lon = photos[allFeatures[j].index + 1].lon
            => ~SamePosition(allFeatures[i], allFeatures[j])

\* Three photos of one route at the same coordinates, drawn at three places
C8_Witness ==
    /\ phase = "viewer"
    /\ mapLoaded
    /\ Len(allFeatures) = 3
    /\ \A i \in DOMAIN allFeatures :
          /\ allFeatures[i].routeIndex = 0
          /\ photos[allFeatures[i].index + 1].lat = <<357000000>>
          /\ photos[allFeatures[i].index + 1].lon = <<1397000000>>
    /\ Cardinality({<<allFeatures[i].lat, allFeatures[i].lon>> :
                        i \in DOMAIN allFeatures}) = 3

\* C9: on the viewer minimap and on the home page card map alike, the offset
\* index of a photo's point is the number of earlier photos of the same route
\* with the same rounded coordinate key; photos of other routes do not count.
C9_IndexCountsOwnRoute ==
    /\ phase = "viewer" /\ mapLoaded =>
          \A n \in DOMAIN allFeatures :
              PlacedWithIndex(allFeatures[n], PhotoAt(n), EarlierSameRouteSameKey(n))
    /\ phase = "home" /\ mapLoaded =>
          \A n \in DOMAIN cardFeatures :
              PlacedWithIndex(cardFeatures[n], PhotoAt(n), EarlierSameRouteSameKey(n))

\* C10: on both maps the first photo of a route to have a rounded coordinate
\* key is rendered at its exact stored coordinates.
C10_FirstOfRouteInPlace ==
    /\ phase = "viewer" /\ mapLoaded =>
          \A n \in DOMAIN allFeatures :
              EarlierSameRouteSameKey(n) = 0 =>
                  /\ allFeatures[n].lat = PhotoAt(n).lat[1]
                  /\ allFeatures[n].lon = PhotoAt(n).lon[1]
    /\ phase = "home" /\ mapLoaded =>
          \A n \in DOMAIN cardFeatures :
              EarlierSameRouteSameKey(n) = 0 =>
                  /\ cardFeatures[n].lat = PhotoAt(n).lat[1]
                  /\ cardFeatures[n].lon = PhotoAt(n).lon[1]

(***************************************************************************)
(* Properties of the route order and the route colours.                    *)
(***************************************************************************)
\* The position in photos (time-sorted, filtered) where a folder first occurs
FirstOccurrence(folder) ==
    CHOOSE i \in DOMAIN photos :
        /\ photos[i].folder = folder
        /\ \A k \in 1..(i - 1) : photos[k].folder # folder

\* The rank of a folder by first occurrence: how many folders occur before it
FirstOccurrenceRank(folder) ==
    Cardinality({photos[k].folder : k \in 1..(FirstOccurrence(folder) - 1)})

\* C11: the route index of a folder is the rank of the folder's first
\* occurrence in the time-sorted filtered photos, whatever the folder's name.
C11_RouteIndexIsFirstOccurrenceRank ==
    phase = "viewer" /\ mapLoaded =>
        \A n \in DOMAIN allFeatures :
            allFeatures[n].routeIndex
                = FirstOccurrenceRank(photos[allFeatures[n].index + 1].folder)

\* palette[i mod L] for the fixed palette of the code
PaletteColor(i) == baseColors[(i % Len(baseColors)) + 1]

\* C14: on both maps the folder at position i of the first-occurrence folder
\* list has the colour palette[i mod L] of the fixed palette (L >= 18).
C14_ColorByFirstOccurrence ==
    /\ Len(baseColors) >= 18
    /\ phase = "viewer" /\ mapLoaded =>
          \A n \in DOMAIN allFeatures :
              allFeatures[n].color
                  = PaletteColor(FirstOccurrenceRank(
                                     photos[allFeatures[n].index + 1].folder))
    /\ phase = "home" /\ mapLoaded =>
          \A n \in DOMAIN cardFeatures :
              cardFeatures[n].color
                  = PaletteColor(FirstOccurrenceRank(PhotoAt(n).folder))

(***************************************************************************)
(* Properties of the bearings.                                             *)
(***************************************************************************)
\* The photos (0-based) of the route of photo i that come after it, and
\* before it, in the time-sorted photos
LaterInRoute(i) ==
    {k \in (i + 1)..(Len(photos) - 1) : photos[k + 1].folder = photos[i + 1].folder}

EarlierInRoute(i) ==
    {k \in 0..(i - 1) : photos[k + 1].folder = photos[i + 1].folder}

Least(S) == CHOOSE x \in S : \A y \in S : x <= y
Greatest(S) == CHOOSE x \in S : \A y \in S : x >= y

InitialBearing(from, to) ==
    calculateBearing(from.lat[1], from.lon[1], to.lat[1], to.lon[1])

\* The bearing the rule gives photo i
RuleBearing(i) ==
    IF LaterInRoute(i) # {}
    THEN InitialBearing(photos[i + 1], photos[Least(LaterInRoute(i)) + 1])
    ELSE IF EarlierInRoute(i) # {}
    THEN InitialBearing(photos[Greatest(EarlierInRoute(i)) + 1], photos[i + 1])
    ELSE 0

\* C12: a photo that is not the last of its time-ordered route has the
\* initial bearing to the next photo of the route; the last photo of a longer
\* route has the bearing from the previous photo to it; the only photo of a
\* route has 0.  Both calculatePhotoBearings and the minimap points follow it.
C12_BearingRule ==
    phase = "viewer" =>
        /\ \A i \in 0..(Len(photos) - 1) : photoBearings[i] = RuleBearing(i)
        /\ mapLoaded =>
              \A n \in DOMAIN allFeatures :
                  allFeatures[n].bearing = RuleBearing(allFeatures[n].index)

\* A route of three photos at three places: the last photo carries the
\* bearing of the leg that reaches it, beside a different first leg
C12_Witness ==
    /\ phase = "viewer"
    /\ mapLoaded
    /\ Len(photos) = 3
    /\ \A i \in DOMAIN photos : photos[i].folder = "F1"
    /\ photoBearings[0] = 18000
    /\ photoBearings[1] = 14328
    /\ photoBearings[2] = 14328
    /\ \E n \in DOMAIN allFeatures :
          allFeatures[n].index = 2 /\ allFeatures[n].bearing = 14328

(***************************************************************************)
(* Properties of the export and of what the handlers leave alone.          *)
(***************************************************************************)
\* C15: no operation changes the yaw or pitch of a photo record: the loaded
\* collection stays as it is, and every photo of the page keeps the yaw and
\* pitch of its loaded record.
C15_RecordsKeepHeading ==
    [][/\ allPhotos' = allPhotos
       /\ \A i \in DOMAIN photos' : \A j \in DOMAIN allPhotos :
              photos'[i].path = allPhotos[j].path =>
                  /\ photos'[i].yaw = allPhotos[j].yaw
                  /\ photos'[i].pitch = allPhotos[j].pitch
      ]_vars

\* After a save of (10, -5) for a photo whose record says yaw 12.34, with the
\* map built: the record is as loaded, the override is in the store
C15_Witness ==
    /\ phase = "viewer"
    /\ mapLoaded
    /\ editStatus = "Saved!"
    /\ CurrentPhoto.yaw = <<1234>>
    /\ CurrentPhoto.pitch = Undefined
    /\ HasLocal(CurrentPhoto)
    /\ headingAdjustments[CurrentPhoto.path] = [yaw |-> 1000, pitch |-> -500]

\* C16: the override store, in memory and in durable storage, changes only
\* in a save or a reset: export, navigation, edits of the inputs, use-current-
\* view and the edit mode toggle leave both as they are.
C16_StoreChangesOnlyBySaveOrReset ==
    [][<<headingAdjustments, localStorage>>' # <<headingAdjustments, localStorage>>
          => saveCurrentHeading \/ resetCurrentHeading
      ]_vars

\* An export has just downloaded the store while the input shows a yaw that
\* was typed and never saved
C16_Witness ==
    /\ phase = "viewer"
    /\ output.kind = "download"
    /\ HasLocal(CurrentPhoto)
    /\ headingAdjustments[CurrentPhoto.path].yaw = 0
    /\ editYaw = <<1000>>
    /\ localStorage = JSONstringify(headingAdjustments)
    /\ Len(photos) = 2
    /\ currentIndex = 1

\* C17 as stated: for every state of the override store the export produces
\* a document with the fields exportedAt, count and overrides, where overrides
\* is the store and count its number of entries.
C17_DocumentAsStated ==
    [][exportAdjustments =>
          /\ output'.kind = "download"
          /\ DOMAIN output'.document = {"exportedAt", "count", "overrides"}
          /\ output'.document.overrides = headingAdjustments
          /\ output'.document.count = Cardinality(DOMAIN headingAdjustments)
      ]_vars

\* C17 amended: for every non-empty override store the export produces a
\* document with the fields exported, count and adjustments, where adjustments
\* is the store and count its number of entries; for the empty store it
\* produces no document and shows an alert.
C17_DocumentOfTheCode ==
    [][exportAdjustments =>
          IF headingAdjustments = <<>>
          THEN output' = [kind |-> "alert",
                          text |-> "No heading adjustments to export."]
          ELSE /\ output'.kind = "download"
               /\ DOMAIN output'.document = {"exported", "count", "adjustments"}
               /\ output'.document.adjustments = headingAdjustments
               /\ output'.document.count = Cardinality(DOMAIN headingAdjustments)
      ]_vars

\* An export of one override from a page of two photos
C17_Witness ==
    /\ phase = "viewer"
    /\ Len(photos) = 2
    /\ output.kind = "download"
    /\ output.document.count = 1
    /\ DOMAIN output.document.adjustments = {"b.jpg"}
    /\ editStatus = "Exported 1 adjustments"

(***************************************************************************)
(* Properties of the error handling.                                       *)
(***************************************************************************)
\* C18: when the stored override text does not parse at session start, the
\* load raises nothing to init(), the in-memory store is empty, init() goes on
\* to show the photos, and every photo resolves from its record or the default.
C18_BadStoreLoadsEmpty ==
    [][ViewerInit /\ localStorage = Garbage =>
          /\ headingAdjustments' = <<>>
          /\ phase' = "viewer"
          /\ consoleError' = NoError
          /\ photos' = getPhotosForNeighborhood(neighborhood, allPhotos)
          /\ \A i \in DOMAIN photos' :
                getPhotoHeading(photos'[i], headingAdjustments').source
                    \in {"index", "default"}
      ]_vars

\* A session started over a text that does not parse, the quota being full:
\* the panel shows the value of index.json
C18_Witness ==
    /\ phase = "viewer"
    /\ localStorage = Garbage
    /\ storageFull
    /\ lastSave = "none"
    /\ headingAdjustments = <<>>
    /\ editMode
    /\ editStatus = "Saved in index.json"
    /\ editYaw = <<1230>>

\* C19: when the durable write of a save or a reset fails, the handler ends
\* normally, the in-memory store keeps the mutation, and for the rest of the
\* session the store changes only by further saves and resets and the panel
\* resolves from it.
C19_FailedWriteKeepsMemory ==
    [][/\ saveCurrentHeading /\ storageFull =>
             /\ lastSave' = "failed"
             /\ localStorage' = localStorage
             /\ phase' = "viewer"
             /\ editStatus' = "Saved!"
             /\ getPhotoHeading(CurrentPhoto, headingAdjustments')
                   = [yaw |-> TypedNumber(editYaw), pitch |-> TypedNumber(editPitch),
                      source |-> "local"]
       /\ resetCurrentHeading /\ storageFull =>
             /\ lastSave' = "failed"
             /\ localStorage' = localStorage
             /\ phase' = "viewer"
             /\ CurrentPhoto.path \notin DOMAIN headingAdjustments'
       /\ lastSave = "failed"
             /\ ~(ViewerInit \/ saveCurrentHeading \/ resetCurrentHeading) =>
             headingAdjustments' = headingAdjustments
       /\ lastSave' = "failed" /\ editMode' /\ ~feedbackPending' =>
             editStatus' = PanelStatus(photos'[currentIndex' + 1], headingAdjustments')
      ]_vars

\* After a save that could not be written: nothing was ever stored, the panel
\* shows the local edit
C19_Witness ==
    /\ phase = "viewer"
    /\ lastSave = "failed"
    /\ localStorage = Garbage
    /\ HasLocal(CurrentPhoto)
    /\ headingAdjustments[CurrentPhoto.path].yaw = 1000
    /\ editMode
    /\ ~feedbackPending
    /\ editStatus = "Local edit (not exported)"

\* C20: a neighborhood with no qualifying photo gives an empty, non-error
\* result: the filter returns the empty sequence, init() reports no error,
\* and the outcome differs from those of a missing neighborhood (redirect)
\* and of a failed load (the error logged by the catch of init).
C20_EmptyIsNotAnError ==
    phase = "empty" =>
        /\ photos = <<>>
        /\ fetched /\ neighborhood # NotFound
        /\ consoleError = NoError

(***************************************************************************)
(* Properties of the ways init() ends, of the routes and of navigation.    *)
(***************************************************************************)
\* C21: when the URL carries no neighborhood id, or the id matches no
\* neighborhood of neighborhoods.json, init() redirects to the index page and
\* stops: no photos are filtered, no panorama, map or marker is made, no
\* photo is loaded, and nothing but a new page load follows.
C21_MissingNeighborhoodRedirects ==
    [][/\ (/\ ViewerInit
           /\ \/ NoIdParam(neighborhoodId)
              \/ fetched /\ neighborhood = NotFound)
          => /\ phase' = "redirect"
             /\ photos' = <<>>
             /\ photoBearings' = <<>>
             /\ panorama' = ""
             /\ ~mapLoaded'
             /\ allFeatures' = <<>>
             /\ activeMarker' = NoMarker
             /\ consoleError' = NoError
       /\ phase = "redirect" => ViewerInit \/ HomeInit]_vars

\* The id names no neighborhood although the collection has photos
C21_Witness ==
    /\ phase = "redirect"
    /\ neighborhoodId = <<"n1">>
    /\ neighborhood = NotFound
    /\ fetched
    /\ Len(allPhotos) = 2
    /\ photos = <<>>
    /\ panorama = ""

CollectionPosition(photo) ==
    CHOOSE k \in DOMAIN allPhotos : allPhotos[k].path = photo.path

\* C23: the points of a route are built in ascending order of timestamp, and
\* two photos of a route with equal timestamps keep the order they have in
\* the photo collection.
C23_RouteOrderStable ==
    phase = "viewer" /\ mapLoaded =>
        \A n, m \in DOMAIN allFeatures :
            n < m /\ allFeatures[n].routeIndex = allFeatures[m].routeIndex =>
                LET p == photos[allFeatures[n].index + 1]
                    q == photos[allFeatures[m].index + 1]
                IN  /\ Instant(p.timestamp) <= Instant(q.timestamp)
                    /\ Instant(p.timestamp) = Instant(q.timestamp)
                          => CollectionPosition(p) < CollectionPosition(q)

\* A route whose latest photo comes first in the collection, followed by two
\* photos of one timestamp
C23_Witness ==
    /\ phase = "viewer"
    /\ mapLoaded
    /\ Len(allFeatures) = 3
    /\ \A n \in DOMAIN allFeatures : allFeatures[n].routeIndex = 0
    /\ photos[allFeatures[1].index + 1].path = "b.jpg"
    /\ photos[allFeatures[2].index + 1].path = "c.jpg"
    /\ photos[allFeatures[3].index + 1].path = "a.jpg"
    /\ Instant(photos[allFeatures[1].index + 1].timestamp)
           = Instant(photos[allFeatures[2].index + 1].timestamp)

\* The points of the photos of a folder, and the lines of their route
PointsOfFolder(f) ==
    {n \in DOMAIN allFeatures : photos[allFeatures[n].index + 1].folder = f}

LinesOfFolder(f) ==
    {l \in DOMAIN routeLines :
        \E n \in PointsOfFolder(f) :
            routeLines[l].routeIndex = allFeatures[n].routeIndex}

\* C24: a folder with exactly one qualifying photo gives one point feature,
\* with bearing 0 and at the photo's stored coordinates, and no line
\* feature; a folder gives a line feature exactly if it has two photos or
\* more.
C24_LineIffTwoOrMore ==
    phase = "viewer" /\ mapLoaded =>
        \A f \in {photos[i].folder : i \in DOMAIN photos} :
            LET size == Cardinality({i \in DOMAIN photos : photos[i].folder = f})
            IN  /\ Cardinality(PointsOfFolder(f)) = size
                /\ Cardinality(LinesOfFolder(f)) = IF size >= 2 THEN 1 ELSE 0
                /\ size = 1 =>
                      \A n \in PointsOfFolder(f) :
                          /\ allFeatures[n].type = "Point"
                          /\ allFeatures[n].bearing = 0
                          /\ allFeatures[n].lat = photos[allFeatures[n].index + 1].lat[1]
                          /\ allFeatures[n].lon = photos[allFeatures[n].index + 1].lon[1]

\* A route of two photos with its line beside a route of one photo, taken
\* where the first route began
C24_Witness ==
    /\ phase = "viewer"
    /\ mapLoaded
    /\ Len(photos) = 3
    /\ Cardinality({i \in DOMAIN photos : photos[i].folder = "F1"}) = 2
    /\ Cardinality({i \in DOMAIN photos : photos[i].folder = "F2"}) = 1
    /\ \A i \in DOMAIN photos :
          photos[i].lat = <<357000000>> /\ photos[i].lon = <<1397000000>>
    /\ Len(routeLines) = 1
    /\ Len(routeLines[1].coordinates) = 2

\* The occurrence index of a point: the earlier points of its route whose
\* photos have the same rounded coordinate key
OccurrenceIndex(n) ==
    Cardinality({m \in 1..(n - 1) :
                    /\ allFeatures[m].routeIndex = allFeatures[n].routeIndex
                    /\ CoordKey(photos[allFeatures[m].index + 1])
                           = CoordKey(photos[allFeatures[n].index + 1])})

\* The offset of a point from the stored coordinates of its photo: <<lat, lon>>
OffsetOf(n) ==
    <<allFeatures[n].lat - photos[allFeatures[n].index + 1].lat[1],
      allFeatures[n].lon - photos[allFeatures[n].index + 1].lon[1]>>

Abs(x) == IF x < 0 THEN 0 - x ELSE x

\* v is u turned by the golden angle of 137.5 degrees: the tangent of the
\* angle from u to v is -0.92 (within 0.03), its cosine negative
TurnedByGoldenAngle(u, v) ==
    LET dot == u[1] * v[1] + u[2] * v[2]
        cross == u[1] * v[2] - u[2] * v[1]
    IN  /\ dot < 0
        /\ cross > 0
        /\ Abs(100 * cross + 92 * dot) <= 3 * Abs(dot)

\* C25: for one rounded coordinate key within one route the offsets of the
\* occurrences k = 0..5 are pairwise distinct; occurrence 0 has offset
\* (0,0); occurrence k >= 1 has a non-zero offset of length
\* offsetDistance * sqrt(k) (to the rounding of the unit), turned by the
\* golden angle from the offset of occurrence k - 1 (from north for k = 1).
C25_SpiralOffsets ==
    phase = "viewer" /\ mapLoaded =>
        \A n \in DOMAIN allFeatures :
            LET k == OccurrenceIndex(n)
                v == OffsetOf(n)
            IN  k <= 5 =>
                  /\ k = 0 => v = <<0, 0>>
                  /\ k >= 1 =>
                        /\ v # <<0, 0>>
                        /\ Abs(v[1] * v[1] + v[2] * v[2]
                                   - offsetDistance * offsetDistance * k)
                               <= 3 * offsetDistance
                        /\ k = 1 => TurnedByGoldenAngle(<<1, 0>>, v)
                  /\ \A m \in DOMAIN allFeatures :
                        /\ m # n
                        /\ allFeatures[m].routeIndex = allFeatures[n].routeIndex
                        /\ CoordKey(photos[allFeatures[m].index + 1])
                               = CoordKey(photos[allFeatures[n].index + 1])
                        /\ OccurrenceIndex(m) <= 5
                        => /\ OffsetOf(m) # v
                           /\ k >= 1 /\ OccurrenceIndex(m) = k + 1
                                 => TurnedByGoldenAngle(v, OffsetOf(m))

\* Six photos of one route at one place, drawn at six places
C25_Witness ==
    /\ phase = "viewer"
    /\ mapLoaded
    /\ Len(allFeatures) = 6
    /\ OccurrenceIndex(6) = 5
    /\ Cardinality({OffsetOf(n) : n \in DOMAIN allFeatures}) = 6

\* The photos of route r in the order of its points
RouteSequence(r) ==
    LET pts == SelectSeq(allFeatures, LAMBDA f : f.routeIndex = r)
    IN  [j \in 1..Len(pts) |-> photos[pts[j].index + 1]]

\* C26: grouping and sorting the photos of an already grouped and
\* time-sorted route gives that one route again, its photos in the same
\* order.
C26_GroupingIdempotent ==
    phase = "viewer" /\ mapLoaded =>
        \A r \in {allFeatures[n].routeIndex : n \in DOMAIN allFeatures} :
            LET s == RouteSequence(r)
            IN  /\ folderNames(s) = <<s[1].folder>>
                /\ routePhotos(s, s[1].folder) = [j \in 1..Len(s) |-> j - 1]

\* A route of three photos, the last two of one timestamp, grouped from a
\* collection that lists them in another order
C26_Witness ==
    /\ phase = "viewer"
    /\ mapLoaded
    /\ Len(RouteSequence(0)) = 3
    /\ RouteSequence(0)[1].path = "c.jpg"
    /\ Instant(RouteSequence(0)[2].timestamp) = Instant(RouteSequence(0)[3].timestamp)
    /\ Instant(RouteSequence(0)[1].timestamp) < Instant(RouteSequence(0)[2].timestamp)

\* The photos moved uniformly by (dlat, dlon), in units of 1e-7 degree
Translated(s, dlat, dlon) ==
    [i \in DOMAIN s |-> [s[i] EXCEPT !.lat = <<s[i].lat[1] + dlat>>,
                                     !.lon = <<s[i].lon[1] + dlon>>]]

\* C27 as stated: the photos moved by a small constant (here 0.1 degree of
\* latitude, or 0.1 degree of longitude) have the same bearings as the
\* photos where they are.
C27_TranslationKeepsBearings ==
    phase = "viewer" =>
        \A d \in {<<1000000, 0>>, <<0, 1000000>>} :
            calculatePhotoBearings(Translated(photos, d[1], d[2])) = photoBearings

\* C27 amended: the photos moved by a constant in longitude (here 0.1 degree)
\* have the same bearings, to the hundredth of a degree.
C27_LongitudeTranslationKeepsBearings ==
    phase = "viewer" =>
        calculatePhotoBearings(Translated(photos, 0, 1000000)) = photoBearings

\* A leg to the south-east: 143.28 degrees, the same 0.1 degree further
\* east, and 143.31 degrees 0.1 degree further north
C27_Witness ==
    /\ phase = "viewer"
    /\ Len(photos) = 2
    /\ photoBearings[0] = 14328
    /\ calculatePhotoBearings(Translated(photos, 0, 1000000))[0] = 14328
    /\ calculatePhotoBearings(Translated(photos, 1000000, 0))[0] = 14331

\* C28: whatever the sequence of previous/next clicks, key presses and map
\* clicks, currentIndex stays within 0 .. photos.length - 1, and a loadPhoto
\* call with an index out of that range (previous at the first photo, next
\* at the last) changes neither the current photo nor the panorama, the
\* buttons, the marker or the edit panel.
C28_IndexStaysInRange ==
    [][/\ phase' = "viewer" => currentIndex' \in 0..(Len(photos') - 1)
       /\ (\/ PrevPhoto /\ currentIndex = 0
           \/ NextPhoto /\ currentIndex = Len(photos) - 1)
          => UNCHANGED <<currentIndex, shownVars, editVars>>]_vars

\* The last of two photos is shown, reached by a click on its map point:
\* the next button is disabled
C28_Witness ==
    /\ phase = "viewer"
    /\ mapLoaded
    /\ Len(photos) = 2
    /\ currentIndex = 1
    /\ panorama = "b.jpg"
    /\ nextDisabled
    /\ ~prevDisabled
    /\ activeMarker # NoMarker

\* C29: in every interleaving of the map's 'load' callback with navigation,
\* once the active marker exists it is at the coordinates of
\* photos[currentIndex].
C29_MarkerAtCurrentPhoto ==
    phase = "viewer" /\ activeMarker # NoMarker =>
        /\ activeMarker.lon = photos[currentIndex + 1].lon[1]
        /\ activeMarker.lat = photos[currentIndex + 1].lat[1]

\* C30: for every photo of the filtered sequence the reference bearing that
\* calculatePhotoBearings stored equals the bearing property of the photo's
\* point on the minimap; the edit panel shows that value for the current
\* photo.
C30_BearingsAgree ==
    phase = "viewer" /\ mapLoaded =>
        \A i \in 0..(Len(photos) - 1) :
            \E n \in DOMAIN allFeatures :
                /\ allFeatures[n].index = i
                /\ allFeatures[n].bearing = photoBearings[i]
                /\ i = currentIndex =>
                      PanelAutoBearing(photoBearings, currentIndex)
                          = ToFixed1(allFeatures[n].bearing)

\* Two routes that alternate in time: the first photo looks to the third
\* one, past the photo of the other route taken in between
C30_Witness ==
    /\ phase = "viewer"
    /\ mapLoaded
    /\ Len(photos) = 3
    /\ photos[1].folder = "F1"
    /\ photos[2].folder = "F2"
    /\ photos[3].folder = "F1"
    /\ photos[2].lat = <<357000003>>
    /\ photoBearings[0] = 14328
    /\ \E n \in DOMAIN allFeatures :
          allFeatures[n].index = 0 /\ allFeatures[n].bearing = 14328

====
